---- MODULE Spec2Model ----
(***************************************************************************)
(* State-machine model of tflite_runner::TFLiteRunner (the engine session  *)
(* of the repository): model / options / interpreter / delegate lifetime,  *)
(* tensor allocation, multi-tensor inference and operator placement.       *)
(* The TensorFlow Lite C API is an external engine: each of its calls is a *)
(* nondeterministic outcome drawn from a small set.                        *)
(***************************************************************************)
EXTENDS Integers, Sequences, FiniteSets, TLC

(***************************************************************************)
(* Bounds of the model                                                     *)
(***************************************************************************)
\* largest element count of a caller-supplied input buffer
MaxSize ==
    2

\* the longest buffer given to NormalizeToUInt8
MaxLen ==
    2

\* the longest name of an output tensor
MaxNameLen ==
    2

\* a float is written as the integer number of its Denominator-th parts
Denominator ==
    4

(***************************************************************************)
(* Values                                                                  *)
(***************************************************************************)
NULL ==
    0

\* TfLiteType values the code distinguishes; "int32" stands for every type
\* that reaches the default branch of the two switches.
SupportedTypes ==
    {"float32", "uint8", "int8"}

\* struct TimingStats, all fields default to 0.0
TimingStats ==
    [model_load_ms |-> 0, delegate_init_ms |-> 0, tensor_allocation_ms |-> 0,
     input_copy_ms |-> 0, inference_ms |-> 0, output_copy_ms |-> 0,
     total_ms |-> 0]

\* struct MemoryStats, both fields default to 0
MemoryStats ==
    [vm_kb |-> 0, rss_kb |-> 0]

\* struct GpuMemorySnapshot; source_path is the 1-based position of the path
\* in kGpuMemPaths (0: empty string), raw_report the contents read (0: empty)
GpuMemorySnapshot ==
    [available |-> FALSE, source_path |-> 0, raw_report |-> 0]

\* struct OpPlacementStats
OpPlacementStats ==
    [total_ops |-> 0, gpu_ops |-> 0, cpu_ops |-> 0, cpu_op_names |-> <<>>]

\* what ReadProcStatusMemory can return: zeros when /proc/self/status is
\* unreadable, otherwise the parsed VmSize / VmRSS values
ReadProcStatusMemory ==
    {MemoryStats, [vm_kb |-> 2, rss_kb |-> 1]}

\* number of entries of kGpuMemPaths
NumGpuMemPaths ==
    5

\* sets of readable paths of kGpuMemPaths the environment can present
ReadablePaths ==
    {{}, {2, 4}}

Min(S) ==
    CHOOSE x \in S : \A y \in S : x <= y

RECURSIVE ScanGpuMemPathsLastWins(_, _, _, _)
\* a loop without the break: the last file that opens wins
ScanGpuMemPathsLastWins(files, p, tried, snapshot) ==
    IF p > NumGpuMemPaths
    THEN [snapshot |-> snapshot, tried |-> tried]
    ELSE ScanGpuMemPathsLastWins(files, p + 1, Append(tried, p),
             IF files[p].open
             THEN [available |-> TRUE, source_path |-> p,
                   raw_report |-> files[p].contents]
             ELSE snapshot)

RECURSIVE ScanGpuMemPaths(_, _, _, _)
\* the loop of ReadGpuMemorySnapshot from the path at position p on: tried
\* holds the paths it tried to open so far, snapshot what it returns when
\* no further file opens
ScanGpuMemPaths(files, p, tried, snapshot) ==
    IF p > NumGpuMemPaths
    THEN [snapshot |-> snapshot, tried |-> tried]
    ELSE IF ~files[p].open
    THEN ScanGpuMemPaths(files, p + 1, Append(tried, p), snapshot)
    ELSE [snapshot |-> [available |-> TRUE, source_path |-> p,
                        raw_report |-> files[p].contents],
          tried |-> Append(tried, p)]

\* ReadGpuMemorySnapshot when the files of the set readable open and the
\* file at position p holds the report p
ReadGpuMemorySnapshot(readable) ==
    ScanGpuMemPaths([p \in 1..NumGpuMemPaths |->
                        [open |-> p \in readable, contents |-> p]],
                    1, <<>>, GpuMemorySnapshot).snapshot

(***************************************************************************)
(* Graphs the engine can build from a model file.  A tensor is             *)
(* [present, type, dims]; present = FALSE is the null pointer a tensor     *)
(* getter can return.  A node of the execution plan is [found, delegate,   *)
(* custom_name, builtin]: found = FALSE is a node_and_registration lookup  *)
(* that yields a null pointer.                                             *)
(***************************************************************************)
Tensor(type, dims) ==
    [present |-> TRUE, type |-> type, dims |-> dims]

NullTensor ==
    [present |-> FALSE, type |-> "float32", dims |-> <<>>]

Node(custom, builtin) ==
    [found |-> TRUE, delegate |-> FALSE, custom_name |-> custom,
     builtin |-> builtin]

NullNode ==
    [found |-> FALSE, delegate |-> FALSE, custom_name |-> "", builtin |-> ""]

NoGraph ==
    [inputs |-> <<>>, outputs |-> <<>>, plan |-> <<>>]

Graphs ==
    { [inputs  |-> <<Tensor("float32", <<1, 2>>), Tensor("uint8", <<2>>)>>,
       outputs |-> <<Tensor("float32", <<2, 2>>), Tensor("int8", <<>>),
                     Tensor("uint8", <<2, 0>>)>>,
       plan    |-> <<Node("", "CONV_2D"), Node("MyOp", "")>>],
      [inputs  |-> <<Tensor("int8", <<1>>)>>,
       outputs |-> <<Tensor("float32", <<2>>), Tensor("int32", <<1>>)>>,
       plan    |-> <<Node("", "ADD")>>],
      [inputs  |-> <<Tensor("float32", <<2>>), Tensor("int32", <<1>>)>>,
       outputs |-> <<Tensor("float32", <<1>>)>>,
       plan    |-> <<Node("", "ADD"), Node("", "ADD")>>],
      [inputs  |-> <<Tensor("uint8", <<1>>)>>,
       outputs |-> <<Tensor("int8", <<1>>)>>,
       plan    |-> <<Node("", "ADD"), NullNode>>] }

(***************************************************************************)
(* State                                                                   *)
(***************************************************************************)
VARIABLES
    \* private members of class TFLiteRunner; a handle is the address of its
    \* object in handles, NULL the null pointer
    model_, options_, interpreter_, gpu_delegate_, tensors_allocated_,
    current_memory_, memory_after_model_load_, memory_after_delegate_init_,
    memory_after_tensor_allocation_, memory_after_inference_,
    gpu_memory_after_delegate_init_, gpu_memory_after_inference_,
    timing_stats_, profiling_enabled_,
    \* the engine: its heap of objects (address -> [kind, of, deleted], of
    \* the object this one was built from or attached to, deleted the number
    \* of times it was deleted), the objects the last call deleted, as
    \* [kind, handle, of] in deletion order, the graph behind the live
    \* interpreter, how many times the last call called each engine function
    \* that builds, attaches, allocates or invokes
    handles, released, graph, calls,
    \* the caller: its outputs vector after the last call when that call was
    \* RunInferenceMulti, the OpPlacementStats the last call returned when it
    \* was GetOpPlacementStats
    outputs, op_stats,
    \* observation of the last call: its name and return value, the input
    \* buffers it was given (by element count), the input tensors it wrote,
    \* whether it invoked the graph, what its allocation attempt did; whether
    \* an invocation succeeded on the live interpreter; whether the session
    \* was destroyed; the clock readings of the last call when it was a
    \* successful RunInferenceMulti, counted from the entry of the call
    op, ret, inputs, written, invoked, alloc_attempt, invoked_ok, destroyed,
    timeline,
    \* the index the last call was given, whether the engine handed out a
    \* tensor for it, and the shape the call returned, when it was
    \* GetInputShape or GetOutputShape
    shape_call,
    \* the output_data of the last call when it was RunInference: its
    \* element count as the caller passed it in and as the call left it
    output_data,
    \* the caller.  pc = "api" is a client that calls the public methods in
    \* any order; every other value is a position of main, the command-line
    \* program: its Config, the shapes of the input arrays it loaded, the
    \* shapes of the outputs it got, its exit code (Running until it
    \* returns), how often it called InitGPUDelegate and RunInferenceMulti,
    \* and how each of its stages ended; the calls of SaveNPY it made, as
    \* [calls, files]: the output indexes it called SaveNPY for, in order,
    \* and the indexes whose file is on disk
    pc, config, input_shapes, output_shapes, exit_code, main_calls, stages,
    saved,
    \* ImageUtils::NormalizeToUInt8: the float buffer it is given and the
    \* bytes it returned.  A float is written as the number of its
    \* Denominator-th parts
    data, result,
    \* one element on its way through the copy loops of RunInferenceMulti:
    \* its tensor as [type, scale, zero_point], the float the
    \* caller passed in, what the input loop stored in the tensor, what the
    \* engine left in the output tensor, and the float the output loop
    \* returned
    tensor_info, host, stored, raw, returned,
    \* ReadGpuMemorySnapshot: the files behind kGpuMemPaths, as
    \* [open, contents] by position in the list, the snapshot it returned
    \* and the positions of the paths it tried to open, in order
    gpu_files, gpu_snapshot, gpu_tried,
    \* GenerateAutoOutputNames: the names of the output tensors as
    \* GetOutputTensorName returns them and the file names it generated.  A
    \* string is the sequence of its characters
    tensor_names, auto_names,
    \* main without --output: config.output_dir and the paths it saves to
    output_dir, resolved_output_paths

sessionVars ==
    <<model_, options_, interpreter_, gpu_delegate_, tensors_allocated_,
      current_memory_, memory_after_model_load_, memory_after_delegate_init_,
      memory_after_tensor_allocation_, memory_after_inference_,
      gpu_memory_after_delegate_init_, gpu_memory_after_inference_,
      timing_stats_, profiling_enabled_>>

engineVars ==
    <<handles, released, graph, calls>>

\* no engine function called yet
NoCalls ==
    [create |-> 0, modify |-> 0, allocate |-> 0, invoke |-> 0]

vars ==
    <<sessionVars, engineVars, outputs, op_stats, op, ret, inputs, written,
      invoked, alloc_attempt, invoked_ok, destroyed, timeline, shape_call,
      output_data, pc, config, input_shapes, output_shapes, exit_code, main_calls, stages,
      saved, data, result, tensor_info, host, stored, raw, returned,
      gpu_files, gpu_snapshot, gpu_tried, tensor_names, auto_names,
      output_dir, resolved_output_paths>>

nameVars ==
    <<tensor_names, auto_names, output_dir, resolved_output_paths>>

gpuVars ==
    <<gpu_files, gpu_snapshot, gpu_tried>>

imageVars ==
    <<data, result>>

elementVars ==
    <<tensor_info, host, stored, raw, returned>>

\* what a call of a method of the runner or a step of main leaves alone
functionVars ==
    <<imageVars, elementVars, gpuVars, nameVars>>

mainVars ==
    <<pc, config, input_shapes, output_shapes, exit_code, main_calls, stages,
      saved>>

\* no output saved
NoSaved ==
    [calls |-> <<>>, files |-> {}]

\* the session, the engine, the caller and the observation of the last
\* call but its name: what a call of a free function leaves alone
callVars ==
    <<sessionVars, engineVars, outputs, op_stats, ret, inputs, written,
      invoked, alloc_attempt, invoked_ok, destroyed, timeline, shape_call,
      output_data, mainVars>>

\* main has not returned yet
Running ==
    -1

\* struct Config before parse_arguments: the flags and the numbers of
\* --input and --output paths
NoConfig ==
    [use_gpu |-> TRUE, n_inputs |-> 0, n_outputs |-> 0, png |-> FALSE]

NoMainCalls ==
    [InitGPUDelegate |-> 0, RunInferenceMulti |-> 0]

\* how the stages of a run ended: "none", "ok" or "failed"
NoStages ==
    [model |-> "none", inputs |-> "none", shapes |-> "none",
     inference |-> "none", npy |-> "none", png |-> "none"]

NoShapeCall ==
    [index |-> 0, present |-> TRUE, shape |-> <<>>]

NoOutputData ==
    [passed |-> 0, returned |-> 0]

\* clock readings of a call: the end of its allocation step, total_start and
\* total_end
NoTimeline ==
    [alloc_end |-> 0, total_start |-> 0, total_end |-> 0]

\* the members that hold handles
Held(s) ==
    {s.model_, s.options_, s.interpreter_, s.gpu_delegate_} \ {NULL}

\* the heap forgets an object once it is deleted and no member points to it
\* any more: its address is free for the next object.  A deleted object a
\* member still points to stays, and so does one deleted more than once.
Forget(s) ==
    [s EXCEPT !.handles =
        [h \in {x \in DOMAIN s.handles :
                  s.handles[x].deleted # 1 \/ x \in Held(s)} |-> s.handles[h]]]

\* the session and the engine as one value, threaded through a handler
Session ==
    [model_ |-> model_, options_ |-> options_, interpreter_ |-> interpreter_,
     gpu_delegate_ |-> gpu_delegate_, tensors_allocated_ |-> tensors_allocated_,
     current_memory_ |-> current_memory_,
     memory_after_model_load_ |-> memory_after_model_load_,
     memory_after_delegate_init_ |-> memory_after_delegate_init_,
     memory_after_tensor_allocation_ |-> memory_after_tensor_allocation_,
     memory_after_inference_ |-> memory_after_inference_,
     gpu_memory_after_delegate_init_ |-> gpu_memory_after_delegate_init_,
     gpu_memory_after_inference_ |-> gpu_memory_after_inference_,
     timing_stats_ |-> timing_stats_, profiling_enabled_ |-> profiling_enabled_,
     handles |-> handles, released |-> <<>>, graph |-> graph,
     calls |-> NoCalls]

\* the handler calls the engine function f
Called(s, f) ==
    [s EXCEPT !.calls[f] = @ + 1]

\* the address the engine gives the next object: the lowest free one
NewHandle(hs) ==
    Min({a \in 1..(Cardinality(DOMAIN hs) + 1) : a \notin DOMAIN hs})

\* the heap after creating an object of the given kind
Create(hs, kind, of) ==
    (NewHandle(hs) :> [kind |-> kind, of |-> of, deleted |-> 0]) @@ hs

\* the heap after deleting the objects of the sequence seq
Delete(hs, seq) ==
    [h \in DOMAIN hs |->
        [hs[h] EXCEPT !.deleted =
            @ + Cardinality({p \in DOMAIN seq : seq[p] = h})]]

\* the entries the deletion of the objects of seq adds to the log
Released(hs, seq) ==
    [p \in DOMAIN seq |->
        IF seq[p] \in DOMAIN hs
        THEN [kind |-> hs[seq[p]].kind, handle |-> seq[p], of |-> hs[seq[p]].of]
        ELSE [kind |-> "freed", handle |-> seq[p], of |-> NULL]]

\* the handler ends: the members and the engine take the values of s
Commit(s) ==
    /\ model_' = s.model_
    /\ options_' = s.options_
    /\ interpreter_' = s.interpreter_
    /\ gpu_delegate_' = s.gpu_delegate_
    /\ tensors_allocated_' = s.tensors_allocated_
    /\ current_memory_' = s.current_memory_
    /\ memory_after_model_load_' = s.memory_after_model_load_
    /\ memory_after_delegate_init_' = s.memory_after_delegate_init_
    /\ memory_after_tensor_allocation_' = s.memory_after_tensor_allocation_
    /\ memory_after_inference_' = s.memory_after_inference_
    /\ gpu_memory_after_delegate_init_' = s.gpu_memory_after_delegate_init_
    /\ gpu_memory_after_inference_' = s.gpu_memory_after_inference_
    /\ timing_stats_' = s.timing_stats_
    /\ profiling_enabled_' = s.profiling_enabled_
    /\ handles' = s.handles
    /\ released' = s.released
    /\ graph' = s.graph
    /\ calls' = s.calls

InitSession ==
    /\ model_ = NULL
    /\ options_ = NULL
    /\ interpreter_ = NULL
    /\ gpu_delegate_ = NULL
    /\ tensors_allocated_ = FALSE
    /\ current_memory_ = MemoryStats
    /\ memory_after_model_load_ = MemoryStats
    /\ memory_after_delegate_init_ = MemoryStats
    /\ memory_after_tensor_allocation_ = MemoryStats
    /\ memory_after_inference_ = MemoryStats
    /\ gpu_memory_after_delegate_init_ = GpuMemorySnapshot
    /\ gpu_memory_after_inference_ = GpuMemorySnapshot
    /\ timing_stats_ = TimingStats
    /\ profiling_enabled_ = TRUE
    /\ handles = <<>>
    /\ released = <<>>
    /\ graph = NoGraph
    /\ calls = NoCalls
    /\ outputs = <<>>
    /\ op_stats = OpPlacementStats
    /\ op = "constructor"
    /\ ret = TRUE
    /\ inputs = <<>>
    /\ written = {}
    /\ invoked = FALSE
    /\ alloc_attempt = "none"
    /\ invoked_ok = FALSE
    /\ destroyed = FALSE
    /\ timeline = NoTimeline
    /\ shape_call = NoShapeCall
    /\ output_data = NoOutputData

\* no command line parsed, nothing loaded, no stage run
InitCaller ==
    /\ config = NoConfig
    /\ input_shapes = <<>>
    /\ output_shapes = <<>>
    /\ exit_code = Running
    /\ main_calls = NoMainCalls
    /\ stages = NoStages
    /\ saved = NoSaved

\* no buffer normalized
NoImage ==
    /\ data = <<>>
    /\ result = <<>>

\* no element copied
NoElement ==
    /\ tensor_info = [type |-> "float32", scale |-> 1, zero_point |-> 0]
    /\ host = 0
    /\ stored = 0
    /\ raw = 0
    /\ returned = 0

\* no GPU memory file read
NoGpuRead ==
    /\ gpu_files = <<>>
    /\ gpu_snapshot = GpuMemorySnapshot
    /\ gpu_tried = <<>>

\* no file name generated
NoNames ==
    /\ tensor_names = <<>>
    /\ auto_names = <<>>
    /\ output_dir = <<>>
    /\ resolved_output_paths = <<>>

InitValues ==
    /\ NoImage
    /\ NoElement
    /\ NoGpuRead
    /\ NoNames

\* a session in the hands of a client of the class
InitApi ==
    /\ InitSession
    /\ InitCaller
    /\ InitValues
    /\ pc = "api"

\* a session in the hands of a client of the class, or of main
Init ==
    /\ InitSession
    /\ InitCaller
    /\ InitValues
    /\ pc \in {"api", "main"}

(***************************************************************************)
(* Helpers of the runner                                                   *)
(***************************************************************************)
\* TimeFunction runs func and returns the time it took: d is what the clock
\* measured
TimeFunction(d) ==
    d

\* RecordMemorySnapshot(slot): slot and current_memory_ take the sample,
\* nothing happens when profiling is disabled
RecordMemorySnapshot(s, slot, sample) ==
    IF ~s.profiling_enabled_
    THEN s
    ELSE [s EXCEPT ![slot] = sample, !.current_memory_ = sample]

\* CaptureGpuMemoryStats
CaptureGpuMemoryStats(s, readable) ==
    IF ~s.profiling_enabled_
    THEN GpuMemorySnapshot
    ELSE ReadGpuMemorySnapshot(readable)

\* RecordGpuMemorySnapshot(slot)
RecordGpuMemorySnapshot(s, slot, readable) ==
    IF ~s.profiling_enabled_
    THEN s
    ELSE [s EXCEPT ![slot] = CaptureGpuMemoryStats(s, readable)]

RECURSIVE DimProduct(_, _)
\* the loop of GetTensorElementCount: count *= dim, over dims[i..]
DimProduct(dims, count) ==
    IF dims = <<>>
    THEN count
    ELSE DimProduct(Tail(dims), count * Head(dims))

\* GetTensorElementCount without the early return for zero dimensions,
\* counting from 0 instead
GetTensorElementCountNoScalar(tensor) ==
    IF ~tensor.present
    THEN 0
    ELSE IF Len(tensor.dims) = 0
         THEN 0
         ELSE DimProduct(tensor.dims, 1)

\* GetTensorElementCount
GetTensorElementCount(tensor) ==
    IF ~tensor.present
    THEN 0
    ELSE IF Len(tensor.dims) = 0
         THEN 1
         ELSE DimProduct(tensor.dims, 1)

\* a Cleanup that deletes options and model only under a live interpreter
CleanupOrderSkipsLeftovers(s) ==
    IF s.interpreter_ = NULL
    THEN (IF s.gpu_delegate_ # NULL THEN <<s.gpu_delegate_>> ELSE <<>>)
    ELSE <<s.interpreter_>> \o
         (IF s.gpu_delegate_ # NULL THEN <<s.gpu_delegate_>> ELSE <<>>) \o
         (IF s.options_ # NULL THEN <<s.options_>> ELSE <<>>) \o
         (IF s.model_ # NULL THEN <<s.model_>> ELSE <<>>)

\* a Cleanup that deletes in acquisition order
CleanupOrderModelFirst(s) ==
    (IF s.model_ # NULL THEN <<s.model_>> ELSE <<>>) \o
    (IF s.options_ # NULL THEN <<s.options_>> ELSE <<>>) \o
    (IF s.interpreter_ # NULL THEN <<s.interpreter_>> ELSE <<>>) \o
    (IF s.gpu_delegate_ # NULL THEN <<s.gpu_delegate_>> ELSE <<>>)

\* the objects Cleanup deletes, in the order it deletes them
CleanupOrder(s) ==
    (IF s.gpu_delegate_ # NULL THEN <<s.gpu_delegate_>> ELSE <<>>) \o
    (IF s.interpreter_ # NULL THEN <<s.interpreter_>> ELSE <<>>) \o
    (IF s.options_ # NULL THEN <<s.options_>> ELSE <<>>) \o
    (IF s.model_ # NULL THEN <<s.model_>> ELSE <<>>)

\* a Cleanup that leaves the delegate and the allocation flag alone
CleanupKeepsDelegate(s) ==
    LET order == (IF s.interpreter_ # NULL THEN <<s.interpreter_>> ELSE <<>>) \o
                 (IF s.options_ # NULL THEN <<s.options_>> ELSE <<>>) \o
                 (IF s.model_ # NULL THEN <<s.model_>> ELSE <<>>)
    IN  Forget(
        [s EXCEPT !.handles = Delete(@, order),
                  !.released = @ \o Released(s.handles, order),
                  !.graph = IF s.interpreter_ # NULL THEN NoGraph ELSE @,
                  !.interpreter_ = NULL,
                  !.options_ = NULL,
                  !.model_ = NULL,
                  !.timing_stats_ = TimingStats,
                  !.current_memory_ = MemoryStats,
                  !.memory_after_model_load_ = MemoryStats,
                  !.memory_after_delegate_init_ = MemoryStats,
                  !.memory_after_tensor_allocation_ = MemoryStats,
                  !.memory_after_inference_ = MemoryStats])

\* a Cleanup that deletes the interpreter and keeps the pointer to it
CleanupKeepsInterpreter(s) ==
    Forget(
    [s EXCEPT !.handles = Delete(@, CleanupOrder(s)),
              !.released = @ \o Released(s.handles, CleanupOrder(s)),
              !.graph = IF s.interpreter_ # NULL THEN NoGraph ELSE @,
              !.gpu_delegate_ = NULL,
              !.options_ = NULL,
              !.model_ = NULL,
              !.tensors_allocated_ = FALSE,
              !.timing_stats_ = TimingStats,
              !.current_memory_ = MemoryStats,
              !.memory_after_model_load_ = MemoryStats,
              !.memory_after_delegate_init_ = MemoryStats,
              !.memory_after_tensor_allocation_ = MemoryStats,
              !.memory_after_inference_ = MemoryStats])

\* Cleanup; the two GPU memory snapshots are not among the members it resets
Cleanup(s) ==
    Forget(
    [s EXCEPT !.handles = Delete(@, CleanupOrder(s)),
              !.released = @ \o Released(s.handles, CleanupOrder(s)),
              !.graph = IF s.interpreter_ # NULL THEN NoGraph ELSE @,
              !.gpu_delegate_ = NULL,
              !.interpreter_ = NULL,
              !.options_ = NULL,
              !.model_ = NULL,
              !.tensors_allocated_ = FALSE,
              !.timing_stats_ = TimingStats,
              !.current_memory_ = MemoryStats,
              !.memory_after_model_load_ = MemoryStats,
              !.memory_after_delegate_init_ = MemoryStats,
              !.memory_after_tensor_allocation_ = MemoryStats,
              !.memory_after_inference_ = MemoryStats])

\* AllocateTensors; ok is the engine's answer to
\* TfLiteInterpreterAllocateTensors
AllocateTensors(s, ok, sample) ==
    IF s.interpreter_ = NULL
    THEN [s |-> s, ret |-> FALSE]
    ELSE IF ~ok
         THEN [s |-> [Called(s, "allocate") EXCEPT !.tensors_allocated_ = FALSE],
               ret |-> FALSE]
         ELSE [s |-> RecordMemorySnapshot(
                        [Called(s, "allocate") EXCEPT !.tensors_allocated_ = TRUE],
                        "memory_after_tensor_allocation_", sample),
               ret |-> TRUE]

(***************************************************************************)
(* What the engine and the environment can answer                          *)
(***************************************************************************)
\* TfLiteModelCreateFromFile / TfLiteInterpreterOptionsCreate /
\* TfLiteInterpreterCreate: which of the three objects come into being, and
\* the graph of the interpreter
LoadOutcomes(E) ==
    { [model |-> FALSE, options |-> FALSE, interpreter |-> FALSE, graph |-> NoGraph],
      [model |-> TRUE, options |-> FALSE, interpreter |-> FALSE, graph |-> NoGraph],
      [model |-> TRUE, options |-> TRUE, interpreter |-> FALSE, graph |-> NoGraph] }
    \cup { [model |-> TRUE, options |-> TRUE, interpreter |-> TRUE, graph |-> g] :
           g \in E.graphs }

\* TfLiteGpuDelegateV2Create / TfLiteInterpreterModifyGraphWithDelegate:
\* whether a delegate is created, whether the graph accepts it, and the
\* nodes of the execution plan the delegate claims
DelegateOutcomes(plan) ==
    { [created |-> FALSE, accepted |-> FALSE, claimed |-> {}],
      [created |-> TRUE, accepted |-> FALSE, claimed |-> {}] }
    \cup { [created |-> TRUE, accepted |-> TRUE, claimed |-> D] :
           D \in SUBSET {i \in DOMAIN plan : plan[i].found} }

\* TfLiteInterpreterAllocateTensors with the time it took and the memory
\* sample taken after it
AllocOutcomes(E) ==
    [ok : BOOLEAN, sample : E.samples, d : E.durations]

NoAlloc ==
    [ok |-> TRUE, sample |-> MemoryStats, d |-> 0]

\* the buffers a caller passes in: each buffer is given by its element count
InputBuffers ==
    UNION { [1..n -> 1..MaxSize] : n \in 0..2 }

\* what the engine can do to one copy loop over n tensors: nothing, or at
\* tensor "at" hand out a null tensor pointer or refuse the buffer copy
CopyFaults(n) ==
    {[at |-> 0, kind |-> "none"]}
    \cup [at : 1..n, kind : {"no_tensor", "copy_failed"}]

\* the buffers the caller passes in: any for a client, for main the arrays
\* it loaded, each of as many elements as the product of its shape
CallerInputs ==
    IF pc = "api"
    THEN InputBuffers
    ELSE {[i \in DOMAIN input_shapes |-> DimProduct(input_shapes[i], 1)]}

\* the outputs vector a caller passes in: main and RunInference, the callers
\* of the repository, pass a freshly constructed empty vector
CallerOutputs ==
    {<<>>}

(***************************************************************************)
(* GetInputShape, GetOutputShape.  The code counts tensors from 0, the     *)
(* sequences of the model from 1.  present is FALSE when the tensor getter *)
(* of the engine returns a null pointer.                                   *)
(***************************************************************************)
\* the indexes a caller asks for
ShapeIndexes ==
    -1..3

\* a GetInputShape that answers only once tensors are allocated
GetInputShapeWhenAllocated(s, index, present) ==
    IF s.interpreter_ = NULL \/ ~s.tensors_allocated_
    THEN <<>>
    ELSE IF index < 0 \/ index >= Len(s.graph.inputs)
    THEN <<>>
    ELSE IF ~present
    THEN <<>>
    ELSE s.graph.inputs[index + 1].dims

GetInputShape(s, index, present) ==
    IF s.interpreter_ = NULL
    THEN <<>>
    ELSE IF index < 0 \/ index >= Len(s.graph.inputs)
    THEN <<>>
    ELSE IF ~present
    THEN <<>>
    ELSE s.graph.inputs[index + 1].dims

GetOutputShape(s, index, present) ==
    IF s.interpreter_ = NULL
    THEN <<>>
    ELSE IF index < 0 \/ index >= Len(s.graph.outputs)
    THEN <<>>
    ELSE IF ~present
    THEN <<>>
    ELSE s.graph.outputs[index + 1].dims

(***************************************************************************)
(* The caller.  A client of the class calls any method at any time; main   *)
(* calls each method at one position and goes on according to its result.  *)
(***************************************************************************)
\* the position of main at which it calls the method
MainPc(name) ==
    CASE name = "LoadModel" -> "load_model"
      [] name = "InitGPUDelegate" -> "init_gpu"
      [] name = "ApplyInputShapes" -> "apply_shapes"
      [] name = "RunInferenceMulti" -> "run"
      [] name = "GetOpPlacementStats" -> "report"
      [] name = "destructor" -> "exit"
      [] OTHER -> "none"

CalledFrom(name) ==
    pc = "api" \/ pc = MainPc(name)

\* main returns code; the runner it constructed goes out of scope next
Exit(code) ==
    [pc |-> "exit", exit_code |-> code]

\* main goes on at position p
Goto(p) ==
    [pc |-> p, exit_code |-> Running]

\* a main that attaches the delegate whatever --no-gpu says
AfterLoadModelIgnoresNoGpu(cfg, r) ==
    IF ~r
    THEN Exit(1)
    ELSE Goto("init_gpu")

\* main after runner.LoadModel returned r
AfterLoadModel(cfg, r) ==
    IF ~r
    THEN Exit(1)
    ELSE IF cfg.use_gpu
    THEN Goto("init_gpu")
    ELSE Goto("load_inputs")

\* a main that calls InitGPUDelegate again until it succeeds
AfterInitGPUDelegateRetries(r) ==
    IF r
    THEN Goto("load_inputs")
    ELSE Goto("init_gpu")

\* main after runner.InitGPUDelegate returned r: a failure is reported and
\* the run continues
AfterInitGPUDelegate(r) ==
    Goto("load_inputs")

\* main after the input arrays are loaded: desired_shapes holds the shapes
\* of the first limit arrays and is applied when it is not empty
AfterLoadInputs(shapes, model_input_count) ==
    IF Min({Len(shapes), model_input_count}) > 0
    THEN Goto("apply_shapes")
    ELSE Goto("run")

\* main after runner.ApplyInputShapes returned r
AfterApplyInputShapes(r) ==
    IF ~r
    THEN Exit(1)
    ELSE Goto("run")

\* main after runner.RunInferenceMulti returned r and left outs in outputs,
\* up to the check of the number of --output paths
AfterRunInferenceMulti(cfg, r, outs) ==
    IF ~r
    THEN Exit(1)
    ELSE IF Len(outs) = 0
    THEN Exit(1)
    ELSE IF /\ cfg.n_outputs # 0
            /\ cfg.n_outputs # Len(outs)
            /\ ~(cfg.n_outputs = 1 /\ Len(outs) = 1)
    THEN Exit(1)
    ELSE Goto("report")

\* "ok" or "failed"
StageResult(r) ==
    IF r THEN "ok" ELSE "failed"

\* the caller goes on after the method name returned r, the session being s
\* and the outputs vector outs
CallerResumes(name, r, s, outs) ==
    IF pc = "api"
    THEN UNCHANGED mainVars
    ELSE LET to == CASE name = "LoadModel" -> AfterLoadModel(config, r)
                     [] name = "InitGPUDelegate" -> AfterInitGPUDelegate(r)
                     [] name = "ApplyInputShapes" -> AfterApplyInputShapes(r)
                     [] name = "RunInferenceMulti" ->
                          AfterRunInferenceMulti(config, r, outs)
                     [] name = "GetOpPlacementStats" -> Goto("save")
                     [] OTHER -> [pc |-> "done", exit_code |-> exit_code]
         IN  /\ pc' = to.pc
             /\ exit_code' = to.exit_code
             /\ main_calls' =
                  IF name \in DOMAIN main_calls
                  THEN [main_calls EXCEPT ![name] = @ + 1]
                  ELSE main_calls
             /\ stages' =
                  CASE name = "LoadModel" ->
                         [stages EXCEPT !.model = StageResult(r)]
                    [] name = "ApplyInputShapes" ->
                         [stages EXCEPT !.shapes = StageResult(r)]
                    [] name = "RunInferenceMulti" ->
                         [stages EXCEPT !.inference = StageResult(r)]
                    [] OTHER -> stages
             /\ output_shapes' =
                  IF name = "RunInferenceMulti" /\ to.pc = "report"
                  THEN [i \in 1..Len(outs) |-> GetOutputShape(s, i - 1, TRUE)]
                  ELSE output_shapes
             /\ UNCHANGED <<config, input_shapes, saved>>

(***************************************************************************)
(* LoadModel                                                               *)
(***************************************************************************)
\* the timed lambda of LoadModel: create model, options, interpreter, stop
\* at the first that fails
CreateModel(s, e) ==
    LET hasModel == e.model
        hasOptions == hasModel /\ e.options
        hasInterpreter == hasOptions /\ e.interpreter
        h1 == IF hasModel THEN Create(s.handles, "model", NULL) ELSE s.handles
        m == IF hasModel THEN NewHandle(s.handles) ELSE NULL
        h2 == IF hasOptions THEN Create(h1, "options", NULL) ELSE h1
        o == IF hasOptions THEN NewHandle(h1) ELSE NULL
        h3 == IF hasInterpreter THEN Create(h2, "interpreter", m) ELSE h2
        i == IF hasInterpreter THEN NewHandle(h2) ELSE NULL
    IN  [s |-> [s EXCEPT !.handles = h3,
                         !.model_ = m,
                         !.options_ = o,
                         !.interpreter_ = i,
                         !.graph = IF hasInterpreter THEN e.graph ELSE NoGraph],
         success |-> hasInterpreter]

\* the values a call that is not RunInferenceMulti leaves in the
\* observation, and the caller going on
Return(s, name, r, attempt) ==
    /\ CallerResumes(name, r, s, <<>>)
    /\ Commit(s)
    /\ outputs' = <<>>
    /\ inputs' = <<>>
    /\ op' = name
    /\ ret' = r
    /\ written' = {}
    /\ invoked' = FALSE
    /\ alloc_attempt' = attempt
    /\ timeline' = NoTimeline
    /\ output_data' = NoOutputData
    /\ UNCHANGED functionVars

LoadModel(E) ==
    /\ ~destroyed
    /\ CalledFrom("LoadModel")
    /\ invoked_ok' = FALSE
    /\ op_stats' = OpPlacementStats
    /\ shape_call' = NoShapeCall
    /\ UNCHANGED destroyed
    /\ \E e \in LoadOutcomes(E), d \in E.durations :
         LET c == Cleanup(Session)
             m == CreateModel(c, e)
             s1 == [m.s EXCEPT !.timing_stats_.model_load_ms = TimeFunction(d)]
         IN  IF ~m.success \/ s1.model_ = NULL \/ s1.interpreter_ = NULL
             THEN Return(s1, "LoadModel", FALSE, "none")
             ELSE \E sample \in E.samples :
                    Return([RecordMemorySnapshot(s1, "memory_after_model_load_",
                                                 sample)
                              EXCEPT !.tensors_allocated_ = FALSE],
                           "LoadModel", TRUE, "none")

(***************************************************************************)
(* InitGPUDelegate                                                         *)
(***************************************************************************)
\* InitGPUDelegate without its already-initialized guard
AlreadyInitializedNever(s) ==
    FALSE

\* a guard that lets every call through
NotInitializedNever(s) ==
    FALSE

\* the guard "if (!interpreter_)" of InitGPUDelegate
NotInitialized(s) ==
    s.interpreter_ = NULL

\* the guard "if (gpu_delegate_)" of InitGPUDelegate
AlreadyInitialized(s) ==
    s.gpu_delegate_ # NULL

\* the plan after the delegate claimed the nodes of D
ModifyGraphWithDelegate(plan, D) ==
    [i \in DOMAIN plan |->
        IF i \in D THEN [plan[i] EXCEPT !.delegate = TRUE] ELSE plan[i]]

\* the timed lambda of InitGPUDelegate: create the delegate, attach it, and
\* delete it again when the graph rejects it
CreateDelegate(s, e) ==
    LET d == NewHandle(s.handles)
        c1 == Called(s, "create")
        c2 == Called(c1, "modify")
    IN  IF ~e.created
        THEN [s |-> c1, success |-> FALSE]
        ELSE IF ~e.accepted
             THEN [s |-> Forget(
                           [c2 EXCEPT
                              !.handles = Delete(Create(@, "delegate", NULL),
                                                 <<d>>),
                              !.released = Append(@, [kind |-> "delegate",
                                                      handle |-> d,
                                                      of |-> NULL]),
                              !.gpu_delegate_ = NULL]),
                   success |-> FALSE]
             ELSE [s |-> [c2 EXCEPT
                            !.handles = Create(@, "delegate", s.interpreter_),
                            !.gpu_delegate_ = d,
                            !.graph.plan = ModifyGraphWithDelegate(@, e.claimed)],
                   success |-> TRUE]

InitGPUDelegate(E) ==
    /\ ~destroyed
    /\ CalledFrom("InitGPUDelegate")
    /\ op_stats' = OpPlacementStats
    /\ shape_call' = NoShapeCall
    /\ UNCHANGED <<invoked_ok, destroyed>>
    /\ LET s == Session
       IN  IF NotInitialized(s)
           THEN Return(s, "InitGPUDelegate", FALSE, "none")
           ELSE IF AlreadyInitialized(s)
           THEN Return(s, "InitGPUDelegate", TRUE, "none")
           ELSE
               \E e \in DelegateOutcomes(s.graph.plan), d \in E.durations :
                  LET c == CreateDelegate(s, e)
                      s1 == [c.s EXCEPT !.timing_stats_.delegate_init_ms =
                                            TimeFunction(d)]
                  IN  IF ~c.success \/ s1.gpu_delegate_ = NULL
                      THEN Return(s1, "InitGPUDelegate", FALSE, "none")
                      ELSE \E sample \in E.samples,
                              readable \in E.readable, a \in AllocOutcomes(E) :
                             LET s2 == RecordMemorySnapshot(
                                          s1, "memory_after_delegate_init_", sample)
                                 s3 == RecordGpuMemorySnapshot(
                                          s2, "gpu_memory_after_delegate_init_",
                                          readable)
                                 al == AllocateTensors(s3, a.ok, a.sample)
                                 s4 == [al.s EXCEPT
                                          !.timing_stats_.tensor_allocation_ms =
                                              TimeFunction(a.d)]
                             IN  Return(s4, "InitGPUDelegate", al.ret,
                                        IF al.ret THEN "ok" ELSE "failed")

(***************************************************************************)
(* RunInferenceMulti                                                       *)
(***************************************************************************)
\* RunInferenceMulti without its allocate-first step
NeedsAllocationNever(s) ==
    FALSE

\* RunInferenceMulti allocating on every call
NeedsAllocationAlways(s) ==
    TRUE

\* the guard "if (!tensors_allocated_)" of RunInferenceMulti
NeedsAllocation(s) ==
    ~s.tensors_allocated_

\* an input loop whose switch skips a tensor of an unsupported type
InputStepSkipsUnsupported(tensor, size, status) ==
    IF ~tensor.present
    THEN "no_tensor"
    ELSE IF size # GetTensorElementCount(tensor)
    THEN "size_mismatch"
    ELSE IF tensor.type \notin SupportedTypes
    THEN "ok"
    ELSE IF ~status
    THEN "copy_failed"
    ELSE "ok"

\* one round of the input loop for tensor i: "ok" when the buffer was copied
\* into the tensor, otherwise the reason the lambda returns early.  status
\* is the engine's answer to TfLiteTensorCopyFromBuffer.
InputStep(tensor, size, status) ==
    IF ~tensor.present
    THEN "no_tensor"
    ELSE IF size # GetTensorElementCount(tensor)
    THEN "size_mismatch"
    ELSE IF tensor.type \notin SupportedTypes
    THEN "unsupported_type"
    ELSE IF ~status
    THEN "copy_failed"
    ELSE "ok"

\* what a tensor getter returns for tensor i under the engine fault f
GetTensor(tensors, i, f) ==
    IF f.at = i /\ f.kind = "no_tensor" THEN NullTensor ELSE tensors[i]

\* the engine's answer to the buffer copy of tensor i under the fault f
CopyStatus(i, f) ==
    ~(f.at = i /\ f.kind = "copy_failed")

\* the timed input lambda: the loop stops at the first tensor whose round
\* does not end "ok"
InputCopy(g, bufs, f) ==
    LET bad == {i \in 1..Len(bufs) :
                  InputStep(GetTensor(g.inputs, i, f), bufs[i],
                            CopyStatus(i, f)) # "ok"}
        k == IF bad = {} THEN Len(bufs) + 1 ELSE Min(bad)
    IN  [input_success |-> bad = {}, written |-> 1..(k - 1)]

\* std::vector::resize on a vector of buffers given by their element counts
Resize(v, n) ==
    [i \in 1..n |-> IF i <= Len(v) THEN v[i] ELSE 0]

\* one round of the output loop for tensor i: the reason the lambda returns
\* early, or "ok"
OutputStep(tensor, status) ==
    IF ~tensor.present
    THEN "no_tensor"
    ELSE IF tensor.type \notin SupportedTypes
    THEN "unsupported_type"
    ELSE IF ~status
    THEN "copy_failed"
    ELSE "ok"

\* the timed output lambda: outputs.resize(output_count), then per tensor
\* outputs[i].resize(element count) and the typed copy, until a round fails
OutputCopy(g, outs, f) ==
    LET m == Len(g.outputs)
        resized == Resize(outs, m)
        bad == {i \in 1..m :
                  OutputStep(GetTensor(g.outputs, i, f), CopyStatus(i, f)) # "ok"}
        k == IF bad = {} THEN m + 1 ELSE Min(bad)
    IN  [output_success |-> bad = {},
         outputs |-> [i \in 1..m |->
                        IF i < k \/ (i = k /\ GetTensor(g.outputs, i, f).present)
                        THEN GetTensorElementCount(g.outputs[i])
                        ELSE resized[i]]]

\* a total span that begins at the entry of the call
TotalStartAtEntry(alloc_end) ==
    0

\* total_start is read after the allocation step
TotalStart(alloc_end) ==
    alloc_end

\* total_ms: the time between the two clock readings
TotalMs(total_start, total_end) ==
    total_end - total_start

\* RunInferenceMulti returns
RunReturn(name, s, bufs, r, w, inv, attempt, outs, tl) ==
    /\ Commit(s)
    /\ op' = name
    /\ ret' = r
    /\ inputs' = bufs
    /\ written' = w
    /\ invoked' = inv
    /\ alloc_attempt' = attempt
    /\ outputs' = outs
    /\ invoked_ok' = (invoked_ok \/ r)
    /\ timeline' = tl
    /\ CallerResumes(name, r, s, outs)
    /\ UNCHANGED functionVars

\* a check that lets too few inputs through
InputCountMismatchWhenMore(bufs, g) ==
    Len(bufs) > Len(g.inputs)

\* inputs.size() != expected_input_count
InputCountMismatch(bufs, g) ==
    Len(bufs) # Len(g.inputs)

\* the body of RunInferenceMulti, called under the name name with one of the
\* input vectors Bufs
RunCall(E, name, Bufs) ==
    /\ ~destroyed
    /\ CalledFrom(name)
    /\ op_stats' = OpPlacementStats
    /\ shape_call' = NoShapeCall
    /\ UNCHANGED destroyed
    /\ \E bufs \in Bufs, outs \in CallerOutputs :
         LET s == Session
         IN  IF s.interpreter_ = NULL
             THEN RunReturn(name, s, bufs, FALSE, {}, FALSE, "none", outs, NoTimeline)
             ELSE
               \E a \in IF NeedsAllocation(s) THEN AllocOutcomes(E) ELSE {NoAlloc} :
                 LET al == AllocateTensors(s, a.ok, a.sample)
                     s1 == IF NeedsAllocation(s)
                           THEN [al.s EXCEPT
                                   !.timing_stats_.tensor_allocation_ms =
                                       TimeFunction(a.d)]
                           ELSE s
                     attempt == IF ~NeedsAllocation(s) THEN "none"
                                ELSE IF al.ret THEN "ok" ELSE "failed"
                 IN  IF NeedsAllocation(s) /\ ~al.ret
                     THEN RunReturn(name, s1, bufs, FALSE, {}, FALSE, attempt, outs,
                                     NoTimeline)
                     ELSE IF InputCountMismatch(bufs, s1.graph)
                     THEN RunReturn(name, s1, bufs, FALSE, {}, FALSE, attempt, outs,
                                     NoTimeline)
                     ELSE
                       \E failIn \in CopyFaults(Len(bufs)), dIn \in E.durations :
                         LET ic == InputCopy(s1.graph, bufs, failIn)
                             s2 == [s1 EXCEPT !.timing_stats_.input_copy_ms =
                                                  TimeFunction(dIn)]
                         IN  IF ~ic.input_success
                             THEN RunReturn(name, s2, bufs, FALSE, ic.written, FALSE,
                                            attempt, outs, NoTimeline)
                             ELSE
                               \E invokeOk \in BOOLEAN, dInf \in E.durations :
                                 LET s3 == [Called(s2, "invoke") EXCEPT
                                              !.timing_stats_.inference_ms =
                                                  TimeFunction(dInf)]
                                 IN  IF ~invokeOk
                                     THEN RunReturn(name, s3, bufs, FALSE, ic.written, TRUE,
                                                    attempt, outs, NoTimeline)
                                     ELSE
                                       \E failOut \in CopyFaults(Len(s3.graph.outputs)),
                                          dOut \in E.durations :
                                         LET oc == OutputCopy(s3.graph, outs,
                                                              failOut)
                                             s4 == [s3 EXCEPT
                                                      !.timing_stats_.output_copy_ms =
                                                          TimeFunction(dOut)]
                                         IN  IF ~oc.output_success
                                             THEN RunReturn(name, s4, bufs, FALSE, ic.written,
                                                            TRUE, attempt,
                                                            oc.outputs, NoTimeline)
                                             ELSE
                                               \E gap \in E.durations,
                                                  sample \in E.samples,
                                                  readable \in E.readable :
                                                 LET allocEnd ==
                                                         IF NeedsAllocation(s)
                                                         THEN TimeFunction(a.d)
                                                         ELSE 0
                                                     totalStart == TotalStart(allocEnd)
                                                     totalEnd ==
                                                         totalStart + dIn + dInf
                                                         + dOut + gap
                                                     s5 == [s4 EXCEPT
                                                              !.timing_stats_.total_ms =
                                                                  TotalMs(totalStart,
                                                                          totalEnd)]
                                                     s6 == RecordMemorySnapshot(
                                                              s5, "memory_after_inference_",
                                                              sample)
                                                     s7 == RecordGpuMemorySnapshot(
                                                              s6, "gpu_memory_after_inference_",
                                                              readable)
                                                 IN  RunReturn(name, s7, bufs, TRUE, ic.written,
                                                               TRUE, attempt,
                                                               oc.outputs,
                                                               [alloc_end |-> allocEnd,
                                                                total_start |-> totalStart,
                                                                total_end |-> totalEnd])

\* RunInferenceMulti called by the caller
RunInferenceMulti(E) ==
    /\ RunCall(E, "RunInferenceMulti", CallerInputs)
    /\ output_data' = NoOutputData

\* the input vectors RunInference builds: {input_data}
SingleInputs ==
    {bufs \in InputBuffers : Len(bufs) = 1}

\* RunInference: output_data, which the caller passes in with passed
\* elements, takes outputs[0] when RunInferenceMulti returned true and left
\* an output
RunInference(E) ==
    /\ RunCall(E, "RunInference", SingleInputs)
    /\ \E passed \in 0..MaxSize :
         output_data' = [passed |-> passed,
                         returned |-> IF ret' /\ outputs' # <<>>
                                      THEN outputs'[1]
                                      ELSE passed]

(***************************************************************************)
(* GetOpPlacementStats, SetProfilingEnabled, destructor                    *)
(***************************************************************************)
\* the name the code gives a node kept on the host
OpName(registration) ==
    IF registration.custom_name # ""
    THEN registration.custom_name
    ELSE registration.builtin

RECURSIVE WalkPlanNewestFirst(_, _)
\* a loop that puts each name in front of the list
WalkPlanNewestFirst(plan, stats) ==
    IF plan = <<>>
    THEN stats
    ELSE LET node == Head(plan)
         IN  WalkPlanNewestFirst(Tail(plan),
                 IF ~node.found
                 THEN stats
                 ELSE IF node.delegate
                 THEN [stats EXCEPT !.gpu_ops = @ + 1]
                 ELSE [stats EXCEPT !.cpu_ops = @ + 1,
                                    !.cpu_op_names = <<OpName(node)>> \o @])

RECURSIVE WalkPlan(_, _)
\* the loop of GetOpPlacementStats over the rest of the execution plan
WalkPlan(plan, stats) ==
    IF plan = <<>>
    THEN stats
    ELSE LET node == Head(plan)
         IN  WalkPlan(Tail(plan),
                 IF ~node.found
                 THEN stats
                 ELSE IF node.delegate
                 THEN [stats EXCEPT !.gpu_ops = @ + 1]
                 ELSE [stats EXCEPT !.cpu_ops = @ + 1,
                                    !.cpu_op_names = Append(@, OpName(node))])

GetOpPlacementStats(s) ==
    IF s.interpreter_ = NULL
    THEN OpPlacementStats
    ELSE WalkPlan(s.graph.plan,
                  [OpPlacementStats EXCEPT !.total_ops = Len(s.graph.plan)])

CallGetOpPlacementStats ==
    /\ ~destroyed
    /\ CalledFrom("GetOpPlacementStats")
    /\ op_stats' = GetOpPlacementStats(Session)
    /\ Return(Session, "GetOpPlacementStats", TRUE, "none")
    /\ shape_call' = NoShapeCall
    /\ UNCHANGED <<invoked_ok, destroyed>>

(***************************************************************************)
(* GetInputShape, GetOutputShape as calls of a client                      *)
(***************************************************************************)
CallGetInputShape ==
    /\ ~destroyed
    /\ CalledFrom("GetInputShape")
    /\ \E index \in ShapeIndexes, present \in BOOLEAN :
         shape_call' = [index |-> index, present |-> present,
                        shape |-> GetInputShape(Session, index, present)]
    /\ Return(Session, "GetInputShape", TRUE, "none")
    /\ op_stats' = OpPlacementStats
    /\ UNCHANGED <<invoked_ok, destroyed>>

CallGetOutputShape ==
    /\ ~destroyed
    /\ CalledFrom("GetOutputShape")
    /\ \E index \in ShapeIndexes, present \in BOOLEAN :
         shape_call' = [index |-> index, present |-> present,
                        shape |-> GetOutputShape(Session, index, present)]
    /\ Return(Session, "GetOutputShape", TRUE, "none")
    /\ op_stats' = OpPlacementStats
    /\ UNCHANGED <<invoked_ok, destroyed>>

SetProfilingEnabled ==
    /\ ~destroyed
    /\ CalledFrom("SetProfilingEnabled")
    /\ \E enabled \in BOOLEAN :
         Return([Session EXCEPT !.profiling_enabled_ = enabled],
                "SetProfilingEnabled", TRUE, "none")
    /\ op_stats' = OpPlacementStats
    /\ shape_call' = NoShapeCall
    /\ UNCHANGED <<invoked_ok, destroyed>>

\* ~TFLiteRunner
Destructor ==
    /\ ~destroyed
    /\ CalledFrom("destructor")
    /\ destroyed' = TRUE
    /\ Return(Cleanup(Session), "destructor", TRUE, "none")
    /\ op_stats' = OpPlacementStats
    /\ shape_call' = NoShapeCall
    /\ UNCHANGED invoked_ok

(***************************************************************************)
(* main: the steps between its calls of the runner                         *)
(***************************************************************************)
\* a step of main that calls no method of the runner
MainStep(name) ==
    /\ Commit(Session)
    /\ outputs' = <<>>
    /\ inputs' = <<>>
    /\ op' = name
    /\ ret' = TRUE
    /\ written' = {}
    /\ invoked' = FALSE
    /\ alloc_attempt' = "none"
    /\ timeline' = NoTimeline
    /\ output_data' = NoOutputData
    /\ op_stats' = OpPlacementStats
    /\ shape_call' = NoShapeCall
    /\ UNCHANGED <<invoked_ok, destroyed, functionVars>>

\* what parse_arguments can leave in Config: --no-gpu given or not, the
\* number of --input and --output paths, --output-png given or not
Configs ==
    [use_gpu : BOOLEAN, n_inputs : 1..2, n_outputs : 0..1, png : BOOLEAN]

\* parse_arguments and the return of main when it fails: no runner exists yet
ParseArguments ==
    /\ pc = "main"
    /\ \E parsed \in BOOLEAN, cfg \in Configs :
         /\ config' = (IF parsed THEN cfg ELSE config)
         /\ pc' = (IF parsed THEN "load_model" ELSE "done")
         /\ exit_code' = (IF parsed THEN Running ELSE 1)
    /\ UNCHANGED <<input_shapes, output_shapes, main_calls, stages, saved>>
    /\ MainStep("parse_arguments")

\* the shapes an array file can declare
NpyShapes ==
    {<<n>> : n \in 1..MaxSize} \cup {<<1, MaxSize>>}

GetInputTensorCount(s) ==
    IF s.interpreter_ = NULL
    THEN 0
    ELSE Len(s.graph.inputs)

\* the loop over the --input paths: LoadNPY fails at one of them, or every
\* array is loaded with the shape its file declares
LoadInputs ==
    /\ pc = "load_inputs"
    /\ \E loaded \in BOOLEAN, shapes \in [1..config.n_inputs -> NpyShapes] :
         LET to == IF loaded
                   THEN AfterLoadInputs(shapes, GetInputTensorCount(Session))
                   ELSE Exit(1)
         IN  /\ input_shapes' = (IF loaded THEN shapes ELSE <<>>)
             /\ stages' = [stages EXCEPT !.inputs = StageResult(loaded)]
             /\ pc' = to.pc
             /\ exit_code' = to.exit_code
    /\ UNCHANGED <<config, output_shapes, main_calls, saved>>
    /\ MainStep("LoadNPY")

\* runner.ApplyInputShapes(desired_shapes): the declared shapes of the first
\* inputs become the desired ones, or the call fails and changes nothing
ApplyInputShapes ==
    /\ ~destroyed
    /\ pc = MainPc("ApplyInputShapes")
    /\ \E applied \in BOOLEAN :
         LET limit == Min({Len(input_shapes), GetInputTensorCount(Session)})
             resized ==
                 [Session EXCEPT !.graph.inputs =
                     [i \in DOMAIN @ |->
                         IF i <= limit
                         THEN [@[i] EXCEPT !.dims = input_shapes[i]]
                         ELSE @[i]]]
         IN  Return(IF applied THEN resized ELSE Session,
                    "ApplyInputShapes", applied, "none")
    /\ op_stats' = OpPlacementStats
    /\ shape_call' = NoShapeCall
    /\ UNCHANGED <<invoked_ok, destroyed>>

\* the reading of the first output as an image
ImageDims(shape) ==
    IF Len(shape) = 4
    THEN IF shape[1] = 1
         THEN [height |-> shape[2], width |-> shape[3], channels |-> shape[4]]
         ELSE [height |-> 0, width |-> 0, channels |-> 1]
    ELSE IF Len(shape) = 3
    THEN [height |-> shape[1], width |-> shape[2], channels |-> shape[3]]
    ELSE IF Len(shape) = 2
    THEN [height |-> shape[1], width |-> shape[2], channels |-> 1]
    ELSE [height |-> 0, width |-> 0, channels |-> 1]

ImageLike(shape) ==
    LET d == ImageDims(shape)
    IN  d.width > 0 /\ d.height > 0 /\ d.channels \in {1, 3, 4}

\* the exit code of main after the save stages: main returns 1 when an
\* array could not be saved and 0 otherwise, whatever became of the PNG
SaveExitCode(npy, png) ==
    IF npy = "failed" THEN 1 ELSE 0

RECURSIVE SaveLoopContinues(_, _, _, _)
\* a save loop that goes on to the next output after a failure
SaveLoopContinues(i, output_count, fail_at, s) ==
    IF i > output_count
    THEN [ok |-> fail_at = 0, saved |-> s]
    ELSE SaveLoopContinues(i + 1, output_count, fail_at,
             [calls |-> Append(s.calls, i),
              files |-> IF i = fail_at THEN s.files ELSE s.files \cup {i}])

RECURSIVE SaveLoop(_, _, _, _)
\* the loop over the outputs from output i on (counted from 1): SaveNPY
\* writes the file of each output in turn and fails at output fail_at
\* (0: at none), s is what was saved so far
SaveLoop(i, output_count, fail_at, s) ==
    IF i > output_count
    THEN [ok |-> TRUE, saved |-> s]
    ELSE IF i = fail_at
    THEN [ok |-> FALSE, saved |-> [s EXCEPT !.calls = Append(@, i)]]
    ELSE SaveLoop(i + 1, output_count, fail_at,
                  [calls |-> Append(s.calls, i), files |-> s.files \cup {i}])

\* the saving of the outputs: SaveNPY fails at output fail_at (0: at none),
\* then the PNG of the first output when --output-png is given
SaveOutputs ==
    /\ pc = "save"
    /\ \E fail_at \in 0..Len(output_shapes), png_written \in BOOLEAN :
         LET loop == SaveLoop(1, Len(output_shapes), fail_at, saved)
             npy == StageResult(loop.ok)
             png == IF npy = "failed" \/ ~config.png
                    THEN "none"
                    ELSE IF ~ImageLike(output_shapes[1])
                    THEN "unsuitable"
                    ELSE StageResult(png_written)
         IN  /\ stages' = [stages EXCEPT !.npy = npy, !.png = png]
             /\ saved' = loop.saved
             /\ pc' = "exit"
             /\ exit_code' = SaveExitCode(npy, png)
    /\ UNCHANGED <<config, input_shapes, output_shapes, main_calls>>
    /\ MainStep("SaveNPY")

\* the environment of the lifecycle specification: every graph, every
\* engine answer, a clock and samplers that always read the same values
LifecycleEnv ==
    [graphs |-> Graphs,
     durations |-> {1},
     samples |-> {[vm_kb |-> 2, rss_kb |-> 1]},
     readable |-> {{2, 4}}]

Next ==
    \/ LoadModel(LifecycleEnv)
    \/ InitGPUDelegate(LifecycleEnv)
    \/ RunInferenceMulti(LifecycleEnv)
    \/ RunInference(LifecycleEnv)
    \/ CallGetOpPlacementStats
    \/ CallGetInputShape
    \/ CallGetOutputShape
    \/ Destructor
    \/ ParseArguments
    \/ LoadInputs
    \/ ApplyInputShapes
    \/ SaveOutputs

Spec ==
    Init /\ [][Next]_vars

\* the environment of the profiling specification: the one-input graph that
\* can run to the end, memory and
\* GPU memory samplers that can fail, profiling switched on and off
ProfilingEnv ==
    [graphs |-> {g \in Graphs :
                   /\ Len(g.inputs) = 1
                   /\ \A i \in DOMAIN g.outputs :
                        g.outputs[i].type \in SupportedTypes},
     durations |-> {1},
     samples |-> ReadProcStatusMemory,
     readable |-> ReadablePaths]

NextProfiling ==
    \/ LoadModel(ProfilingEnv)
    \/ InitGPUDelegate(ProfilingEnv)
    \/ RunInferenceMulti(ProfilingEnv)
    \/ SetProfilingEnabled
    \/ Destructor

SpecProfiling ==
    InitApi /\ [][NextProfiling]_vars

\* the environment of the timing specification: the one-input graph that
\* can run to the end and a clock whose measurements differ, zero included
TimingEnv ==
    [graphs |-> ProfilingEnv.graphs,
     durations |-> {0, 2},
     samples |-> {[vm_kb |-> 2, rss_kb |-> 1]},
     readable |-> {{2, 4}}]

NextTiming ==
    \/ LoadModel(TimingEnv)
    \/ RunInferenceMulti(TimingEnv)

SpecTiming ==
    InitApi /\ [][NextTiming]_vars

(***************************************************************************)
(* Numbers.  Float(n) is the float of the integer n; the floats of the     *)
(* model are multiples of 1/Denominator.                                   *)
(***************************************************************************)
\* static_cast<float>(n) of an 8-bit integer n
Float(n) ==
    n * Denominator

\* a conversion to an integer that rounds to the nearest integer
TruncateRounds(v) ==
    IF v >= 0
    THEN (2 * v + Denominator) \div (2 * Denominator)
    ELSE -((2 * (-v) + Denominator) \div (2 * Denominator))

\* the conversion of the float v to an integer type discards the fraction
Truncate(v) ==
    IF v >= 0
    THEN v \div Denominator
    ELSE -((-v) \div Denominator)

\* the values of an 8-bit tensor type
IntegersOf(type) ==
    IF type = "uint8" THEN 0..255 ELSE -128..127

\* static_cast<T>(v) of a float v to the 8-bit type T: the integer part of
\* v when T can hold it; the behaviour is undefined otherwise and any value
\* of T can come out
StaticCast(type, v) ==
    IF Truncate(v) \in IntegersOf(type)
    THEN {Truncate(v)}
    ELSE IntegersOf(type)

(***************************************************************************)
(* ImageUtils::NormalizeToUInt8                                            *)
(***************************************************************************)
MinElement(d) ==
    CHOOSE x \in {d[i] : i \in DOMAIN d} : \A i \in DOMAIN d : x <= d[i]

MaxElement(d) ==
    CHOOSE x \in {d[i] : i \in DOMAIN d} : \A i \in DOMAIN d : x >= d[i]

\* static_cast<uint8_t>(num / den * 255.0f) for 0 <= num <= den: the
\* product lies in 0..255
ScaleToByte(num, den) ==
    (num * 255) \div den

\* static_cast<uint8_t>(std::round(v)) for 0 <= v <= 255: halves are
\* rounded away from zero
RoundToByte(v) ==
    (2 * v + Denominator) \div (2 * Denominator)

NormalizeToUInt8(d) ==
    IF d = <<>>
    THEN <<>>
    ELSE LET min_val == MinElement(d)
             max_val == MaxElement(d)
             range == max_val - min_val
         IN  IF min_val >= Float(0) /\ max_val <= Float(1)
             THEN [i \in DOMAIN d |-> ScaleToByte(d[i], Denominator)]
             ELSE IF min_val >= Float(0) /\ max_val <= Float(255)
             THEN [i \in DOMAIN d |-> RoundToByte(d[i])]
             ELSE IF range * 1000000 < Denominator
             THEN [i \in DOMAIN d |-> 128]
             ELSE [i \in DOMAIN d |-> ScaleToByte(d[i] - min_val, range)]

\* the floats of a buffer: below 0, in [0, 1], in [0, 255] and above 255
PixelValues ==
    {Float(n) : n \in {-1, 0, 1, 5, 255, 256}} \cup {Denominator \div 2}

PixelBuffers ==
    UNION { [1..n -> PixelValues] : n \in 0..MaxLen }

CallNormalizeToUInt8 ==
    /\ op' = "NormalizeToUInt8"
    /\ result' = NormalizeToUInt8(data)
    /\ UNCHANGED <<callVars, data, elementVars, gpuVars, nameVars>>

InitImage ==
    /\ InitSession
    /\ InitCaller
    /\ pc = "api"
    /\ data \in PixelBuffers
    /\ result = <<>>
    /\ NoElement
    /\ NoGpuRead
    /\ NoNames

NextImage ==
    CallNormalizeToUInt8

SpecImage ==
    InitImage /\ [][NextImage]_vars

(***************************************************************************)
(* The element conversions of the copy loops of RunInferenceMulti          *)
(***************************************************************************)
\* what the input loop stores for the float v of the caller
InputElement(type, v) ==
    IF type = "float32"
    THEN {v}
    ELSE StaticCast(type, v)

\* the float the output loop returns for the content r of the tensor
OutputElement(type, r) ==
    IF type = "float32"
    THEN r
    ELSE Float(r)

\* the tensors an element can belong to, with the quantization parameters
\* the engine keeps for them
TensorInfos ==
    [type : SupportedTypes, scale : {1, 2}, zero_point : {0, 3}]

\* the floats a caller passes in: whole and fractional, inside and outside
\* the ranges of the 8-bit types
HostValues ==
    {Float(n) + f : n \in {-129, -2, 0, 2, 127, 256},
                    f \in {0, 1, Denominator - 1}}

\* what the engine can leave in an output tensor of the type
RawValues(type) ==
    IF type = "float32"
    THEN HostValues
    ELSE {-128, -1, 0, 1, 127, 200, 255} \cap IntegersOf(type)

\* the body of the input switch for one element, which a call copies once
CopyInputElement ==
    /\ op = "constructor"
    /\ op' = "input_copy"
    /\ stored' \in InputElement(tensor_info.type, host)
    /\ UNCHANGED <<callVars, imageVars, gpuVars, nameVars, tensor_info, host,
                   raw, returned>>

\* the body of the output switch for one element, which a call copies once
CopyOutputElement ==
    /\ op = "constructor"
    /\ op' = "output_copy"
    /\ returned' = OutputElement(tensor_info.type, raw)
    /\ UNCHANGED <<callVars, imageVars, gpuVars, nameVars, tensor_info, host,
                   stored, raw>>

InitElement ==
    /\ InitSession
    /\ InitCaller
    /\ pc = "api"
    /\ NoImage
    /\ NoGpuRead
    /\ NoNames
    /\ tensor_info \in TensorInfos
    /\ host \in HostValues
    /\ raw \in RawValues(tensor_info.type)
    /\ stored = 0
    /\ returned = 0

NextElement ==
    \/ CopyInputElement
    \/ CopyOutputElement

SpecElement ==
    InitElement /\ [][NextElement]_vars

(***************************************************************************)
(* ReadGpuMemorySnapshot on any files                                      *)
(***************************************************************************)
\* what can be behind one path: nothing that opens, or a file that opens
\* with some contents (0: empty)
GpuMemFile ==
    {[open |-> FALSE, contents |-> 0]} \cup [open : {TRUE}, contents : 0..2]

GpuMemFiles ==
    [1..NumGpuMemPaths -> GpuMemFile]

CallReadGpuMemorySnapshot ==
    /\ op' = "ReadGpuMemorySnapshot"
    /\ LET scan == ScanGpuMemPaths(gpu_files, 1, <<>>, GpuMemorySnapshot)
       IN  /\ gpu_snapshot' = scan.snapshot
           /\ gpu_tried' = scan.tried
    /\ UNCHANGED <<callVars, imageVars, elementVars, nameVars, gpu_files>>

InitGpuMem ==
    /\ InitSession
    /\ InitCaller
    /\ pc = "api"
    /\ NoImage
    /\ NoElement
    /\ NoNames
    /\ gpu_files \in GpuMemFiles
    /\ gpu_snapshot = GpuMemorySnapshot
    /\ gpu_tried = <<>>

NextGpuMem ==
    CallReadGpuMemorySnapshot

SpecGpuMem ==
    InitGpuMem /\ [][NextGpuMem]_vars

(***************************************************************************)
(* SanitizeFilename, GenerateAutoOutputNames                               *)
(***************************************************************************)
\* std::isalnum(c) || c == '_' || c == '-' || c == '.'
KeptCharacter(c) ==
    c \in {"a", "b", "0", "1", "_", "-", "."}

RECURSIVE StripLeadingUnderscores(_)
\* while (!sanitized.empty() && sanitized.front() == '_') erase the front
StripLeadingUnderscores(str) ==
    IF str # <<>> /\ Head(str) = "_"
    THEN StripLeadingUnderscores(Tail(str))
    ELSE str

SanitizeFilename(name) ==
    IF name = <<>>
    THEN <<>>
    ELSE LET sanitized ==
                 StripLeadingUnderscores(
                     [k \in DOMAIN name |->
                         IF KeptCharacter(name[k]) THEN name[k] ELSE "_"])
         IN  IF sanitized = <<>>
             THEN <<"o", "u", "t", "p", "u", "t">>
             ELSE sanitized

\* std::to_string(i) for an index below ten
to_string(i) ==
    <<<<"0", "1", "2", "3", "4", "5", "6", "7", "8", "9">>[i + 1]>>

\* the file name of output i, counted from 0, whose tensor is named name
AutoOutputName(name, i) ==
    LET base == SanitizeFilename(name)
    IN  (IF base = <<>>
         THEN <<"o", "u", "t", "p", "u", "t", "_">> \o to_string(i)
         ELSE base)
        \o <<".", "n", "p", "y">>

GenerateAutoOutputNames(names) ==
    [k \in DOMAIN names |-> AutoOutputName(names[k], k - 1)]

\* the names GetOutputTensorName can return: the empty string for a tensor
\* without a name, or characters that are kept, '_' and one that is replaced
TensorNames ==
    UNION { [1..n -> {"a", "_", "/"}] : n \in 0..MaxNameLen }

JoinPath(dir, filename) ==
    IF dir = <<>> \/ dir = <<".">> \/ dir = <<".", "/">>
    THEN filename
    ELSE IF dir[Len(dir)] = "/"
         THEN dir \o filename
         ELSE dir \o <<"/">> \o filename

\* the values of config.output_dir: the current directory in the two ways
\* JoinPath knows, and a directory with and without the trailing '/'
OutputDirs ==
    {<<".">>, <<>>, <<"d">>, <<"d", "/">>}

\* main when config.output_paths is empty
ResolveOutputPaths ==
    /\ op' = "GenerateAutoOutputNames"
    /\ auto_names' = GenerateAutoOutputNames(tensor_names)
    /\ resolved_output_paths' =
         [k \in DOMAIN auto_names' |-> JoinPath(output_dir, auto_names'[k])]
    /\ UNCHANGED <<callVars, imageVars, elementVars, gpuVars, tensor_names,
                   output_dir>>

InitNames ==
    /\ InitSession
    /\ InitCaller
    /\ pc = "api"
    /\ NoImage
    /\ NoElement
    /\ NoGpuRead
    /\ tensor_names \in UNION { [1..n -> TensorNames] : n \in 1..2 }
    /\ auto_names = <<>>
    /\ output_dir \in OutputDirs
    /\ resolved_output_paths = <<>>

NextNames ==
    ResolveOutputPaths

SpecNames ==
    InitNames /\ [][NextNames]_vars

(***************************************************************************)
(* Properties                                                              *)
(***************************************************************************)
LastRun ==
    op = "RunInferenceMulti"

\* C1: a call with the right number of inputs of which some buffer has the
\* wrong element count returns false, does not invoke, and has written no
\* input tensor at all, not even the tensors before the offending one.
C1_NoPartialInputCopy ==
    (/\ LastRun
     /\ interpreter_ # NULL
     /\ Len(inputs) = Len(graph.inputs)
     /\ \E i \in DOMAIN inputs :
          inputs[i] # GetTensorElementCount(graph.inputs[i]))
    => (~ret /\ ~invoked /\ written = {})

\* C2: after a successful LoadModel, an InitGPUDelegate that returns false
\* leaves no delegate attached to the session.
C2_FailedInitLeavesNoDelegate ==
    (op = "InitGPUDelegate" /\ ~ret /\ interpreter_ # NULL)
    => gpu_delegate_ = NULL

\* the delegates that are attached to an interpreter and not deleted
AttachedDelegates ==
    {h \in DOMAIN handles :
        /\ handles[h].kind = "delegate"
        /\ handles[h].deleted = 0
        /\ handles[h].of # NULL}

\* C3: InitGPUDelegate on a session with an attached delegate returns true
\* and changes no member of the session and nothing in the engine (no new
\* delegate, graph not modified again, delegate_init_ms as it was); at most
\* one delegate is ever attached.
C3_SecondAttachIsNoOp ==
    /\ [][(op' = "InitGPUDelegate" /\ gpu_delegate_ # NULL)
          => (ret' /\ UNCHANGED <<sessionVars, handles, graph>>)]_vars
    /\ [](Cardinality(AttachedDelegates) <= 1)

\* an InitGPUDelegate that took the already-attached path: it returned true
\* without an allocation attempt
C3_Witness ==
    op = "InitGPUDelegate" /\ ret /\ alloc_attempt = "none"

\* C4: after a LoadModel that returns false the session holds no model, no
\* options, no interpreter, no delegate, and tensors are not allocated.
C4_FailedLoadIsUnloaded ==
    (op = "LoadModel" /\ ~ret)
    => /\ model_ = NULL
       /\ options_ = NULL
       /\ interpreter_ = NULL
       /\ gpu_delegate_ = NULL
       /\ ~tensors_allocated_

\* C5: no object is deleted twice, every object that is not deleted is held
\* by a member of the session (nothing leaks, also not across a failed
\* LoadModel followed by another LoadModel), the members point to live
\* objects only, and after destruction no object is left.
C5_ReleasedExactlyOnce ==
    /\ \A h \in DOMAIN handles : handles[h].deleted <= 1
    /\ \A h \in DOMAIN handles : handles[h].deleted = 0 => h \in Held(Session)
    /\ \A h \in Held(Session) : h \in DOMAIN handles /\ handles[h].deleted = 0
    /\ destroyed => DOMAIN handles = {}

\* a LoadModel that follows a failed LoadModel: its Cleanup deleted the
\* options and the model the failed call left behind
C5_Witness ==
    /\ op = "LoadModel"
    /\ Len(released) = 2
    /\ released[1].kind = "options"
    /\ released[2].kind = "model"

Rank(kind) ==
    CASE kind = "delegate" -> 1
      [] kind = "interpreter" -> 2
      [] kind = "options" -> 3
      [] kind = "model" -> 4
      [] OTHER -> 0

\* C6: the objects one call deletes are deleted in the order delegate,
\* interpreter, options, model; a live delegate is attached to a live
\* interpreter only, and a live interpreter is built from a live model.
C6_TeardownOrder ==
    /\ \A p, q \in DOMAIN released :
         p < q => Rank(released[p].kind) < Rank(released[q].kind)
    /\ \A h \in DOMAIN handles :
         (handles[h].deleted = 0 /\ handles[h].of # NULL)
         => /\ handles[h].of \in DOMAIN handles
            /\ handles[handles[h].of].deleted = 0
            /\ handles[handles[h].of].kind =
                 (IF handles[h].kind = "delegate" THEN "interpreter" ELSE "model")

\* a Cleanup that deleted all four objects
C6_Witness ==
    Len(released) = 4 /\ released[1].kind = "delegate"

RECURSIVE ShapeProduct(_)
\* the product of a dimension sequence, 1 for the empty one
ShapeProduct(dims) ==
    IF Len(dims) = 0
    THEN 1
    ELSE dims[Len(dims)] * ShapeProduct(SubSeq(dims, 1, Len(dims) - 1))

\* C7: when RunInferenceMulti returns true, outputs has one buffer per output
\* tensor, in tensor order, each of as many elements as the product of the
\* tensor's dimensions.
C7_OutputsMatchShapes ==
    (LastRun /\ ret)
    => /\ Len(outputs) = Len(graph.outputs)
       /\ \A i \in DOMAIN outputs :
            outputs[i] = ShapeProduct(graph.outputs[i].dims)

\* a successful run on a graph with a zero-dimensional output tensor
C7_Witness ==
    /\ LastRun
    /\ ret
    /\ \E i \in DOMAIN graph.outputs : graph.outputs[i].dims = <<>>

\* C8: placement statistics obtained after a successful invocation satisfy
\* gpu_ops + cpu_ops = total_ops, total_ops being the length of the plan.
C8_PlacementCountsAddUp ==
    (op = "GetOpPlacementStats" /\ invoked_ok)
    => /\ op_stats.total_ops = Len(graph.plan)
       /\ op_stats.gpu_ops + op_stats.cpu_ops = op_stats.total_ops

\* C9: with an input tensor of an unsupported type the call returns false
\* and does not invoke; with an output tensor of an unsupported type the
\* call returns false.
C9_UnsupportedTypeFails ==
    /\ (LastRun /\ \E i \in DOMAIN graph.inputs :
                     graph.inputs[i].type \notin SupportedTypes)
       => (~ret /\ ~invoked)
    /\ (LastRun /\ \E i \in DOMAIN graph.outputs :
                     graph.outputs[i].type \notin SupportedTypes)
       => ~ret

\* a run that reached an input tensor of an unsupported type: the buffers
\* match in number and size and the tensors before it were written
C9_Witness ==
    /\ LastRun
    /\ written # {}
    /\ \E i \in DOMAIN graph.inputs :
         /\ graph.inputs[i].type \notin SupportedTypes
         /\ written = 1..(i - 1)
    /\ \A i \in DOMAIN graph.inputs :
         inputs[i] = GetTensorElementCount(graph.inputs[i])

\* C10: a run that copied an input or invoked did so on allocated tensors; a
\* run whose allocation failed returned false without copying or invoking;
\* a run on a session with an interpreter and unallocated tensors attempts
\* the allocation.
C10_AllocatedBeforeUse ==
    /\ []((LastRun /\ (written # {} \/ invoked)) => tensors_allocated_)
    /\ []((LastRun /\ alloc_attempt = "failed")
          => (~ret /\ written = {} /\ ~invoked /\ ~tensors_allocated_))
    /\ [][(op' = "RunInferenceMulti" /\ interpreter_ # NULL
           /\ ~tensors_allocated_) => alloc_attempt' # "none"]_vars

\* a run that had to allocate, succeeded in it, and went on to invoke
C10_Witness ==
    LastRun /\ alloc_attempt = "ok" /\ invoked

\* the timings of the load, attach and allocate stages
StageTimes ==
    <<timing_stats_.model_load_ms, timing_stats_.delegate_init_ms,
      timing_stats_.tensor_allocation_ms>>

\* C11: a RunInferenceMulti call on a session whose tensors are allocated
\* makes no allocation attempt, creates and deletes no engine object, attaches
\* no delegate, leaves the graph, the handles, the allocation flag and the
\* load, attach and allocate timings as they were, and calls invoke at most
\* once: it repeats input copy, invoke and output copy only.
C11_AllocatedRunSkipsSetup ==
    [][(op' = "RunInferenceMulti" /\ tensors_allocated_)
       => /\ alloc_attempt' = "none"
          /\ calls'.create = 0 /\ calls'.modify = 0 /\ calls'.allocate = 0
          /\ released' = <<>>
          /\ UNCHANGED <<model_, options_, interpreter_, gpu_delegate_,
                         tensors_allocated_, handles>>
          /\ graph' = graph
          /\ StageTimes' = StageTimes]_vars

\* a second successful invocation on a host-only session: the allocation
\* was made by an earlier RunInferenceMulti
C11_Witness ==
    /\ LastRun
    /\ ret
    /\ alloc_attempt = "none"
    /\ gpu_delegate_ = NULL

\* C12: whenever InitGPUDelegate returns true a delegate is attached and
\* tensors are allocated, on every path that returns true.
C12_InitTrueMeansAllocated ==
    (op = "InitGPUDelegate" /\ ret)
    => (gpu_delegate_ # NULL /\ tensors_allocated_)

\* C15: after a successful LoadModel no delegate is attached and tensors are
\* not allocated; an InitGPUDelegate that follows constructs a delegate
\* instead of taking the already-attached path, a RunInferenceMulti that
\* follows attempts the allocation before it copies or invokes.
C15_LoadResetsDelegateAndAllocation ==
    /\ []((op = "LoadModel" /\ ret)
          => /\ gpu_delegate_ = NULL
             /\ ~tensors_allocated_
             /\ AttachedDelegates = {})
    /\ [][(op = "LoadModel" /\ ret /\ op' = "InitGPUDelegate")
          => calls'.create = 1]_vars
    /\ [][(op = "LoadModel" /\ ret /\ op' = "RunInferenceMulti")
          => (calls'.allocate = 1 /\ alloc_attempt' # "none")]_vars

\* a successful LoadModel on a session that held a delegate, an
\* interpreter, options and a model
C15_Witness ==
    /\ op = "LoadModel"
    /\ ret
    /\ Len(released) = 4

LastShape ==
    op \in {"GetInputShape", "GetOutputShape"}

\* the tensors the accessor of the last call looks at
ShapeTensors ==
    IF op = "GetInputShape" THEN graph.inputs ELSE graph.outputs

\* C14 as stated: a shape accessor returns the empty sequence whenever the
\* index is out of range, no model is loaded or the tensors of the graph
\* are not allocated.
C14_ShapeEmptyUnlessAllocated ==
    (/\ LastShape
     /\ \/ shape_call.index < 0
        \/ shape_call.index >= Len(ShapeTensors)
        \/ interpreter_ = NULL
        \/ ~tensors_allocated_)
    => shape_call.shape = <<>>

\* C14 as amended: a shape accessor returns the empty sequence whenever the
\* index is negative or not below the tensor count and whenever the session
\* has no interpreter; otherwise it returns the declared dimension sequence
\* of the tensor or, when the engine hands out no tensor, the empty sequence,
\* whether or not tensors are allocated; it changes no member of the session
\* and nothing in the engine.
C14_ShapeOfLoadedGraph ==
    /\ [](LastShape
          => IF \/ shape_call.index < 0
                \/ shape_call.index >= Len(ShapeTensors)
                \/ interpreter_ = NULL
             THEN shape_call.shape = <<>>
             ELSE IF ~shape_call.present
             THEN shape_call.shape = <<>>
             ELSE shape_call.shape = ShapeTensors[shape_call.index + 1].dims)
    /\ [][(op' \in {"GetInputShape", "GetOutputShape"})
          => UNCHANGED <<sessionVars, handles, graph>>]_vars

\* GetInputShape on a loaded graph whose tensors are not allocated returns
\* the declared dimensions
C14_Witness ==
    /\ op = "GetInputShape"
    /\ interpreter_ # NULL
    /\ ~tensors_allocated_
    /\ shape_call.shape # <<>>
    /\ shape_call.shape = graph.inputs[shape_call.index + 1].dims

\* C16: nothing is retried.  One call of InitGPUDelegate asks the engine at
\* most once to create a delegate and at most once to modify the graph, one
\* call of RunInferenceMulti asks it at most once to allocate the tensors
\* and at most once to invoke, and one run of main calls InitGPUDelegate at
\* most once and RunInferenceMulti at most once.
C16_NoRetries ==
    /\ op = "InitGPUDelegate" => calls.create <= 1 /\ calls.modify <= 1
    /\ LastRun => calls.allocate <= 1 /\ calls.invoke <= 1
    /\ main_calls.InitGPUDelegate <= 1
    /\ main_calls.RunInferenceMulti <= 1

\* main went on after its one call of InitGPUDelegate failed, and its one
\* call of RunInferenceMulti allocated the tensors and invoked, once each
C16_Witness ==
    /\ LastRun
    /\ pc = "report"
    /\ gpu_delegate_ = NULL
    /\ main_calls = [InitGPUDelegate |-> 1, RunInferenceMulti |-> 1]
    /\ calls.allocate = 1
    /\ calls.invoke = 1

\* C17: main returns 0 only if the model was loaded, every input file was
\* loaded, inference succeeded and every requested save succeeded: each
\* output array and, when --output-png is given, the PNG; a failure in any
\* of these stages gives a return code other than 0.
C17_ExitZeroMeansAllSucceeded ==
    /\ exit_code = 0
         => /\ stages.model = "ok"
            /\ stages.inputs = "ok"
            /\ stages.inference = "ok"
            /\ stages.npy = "ok"
            /\ config.png => stages.png = "ok"
    /\ (/\ exit_code # Running
         /\ \/ \E f \in DOMAIN stages : stages[f] = "failed"
            \/ stages.png = "unsuitable")
         => exit_code # 0

\* main runs with --no-gpu and has parsed its arguments
NoGpuRun ==
    /\ pc \notin {"api", "main"}
    /\ ~config.use_gpu

ConstantBuffer ==
    /\ op = "NormalizeToUInt8"
    /\ data # <<>>
    /\ \A i, j \in DOMAIN data : data[i] = data[j]

\* C19: NormalizeToUInt8 of a buffer that is not empty and whose values are
\* all equal, all 5.0 for one, returns 128 in every element.
C19_ConstantBufferGives128 ==
    ConstantBuffer
    => /\ Len(result) = Len(data)
       /\ \A i \in DOMAIN result : result[i] = 128

\* the float v lies in the range of the 8-bit type
InRange(type, v) ==
    IF type = "uint8"
    THEN Float(0) <= v /\ v <= Float(255)
    ELSE Float(-128) <= v /\ v <= Float(127)

\* C20: the input loop stores a float that lies in the range of a uint8 or
\* int8 tensor as its integer part, the fraction cut off toward zero and
\* never rounded to the nearest integer; the output loop returns for a
\* uint8 or int8 tensor the float of the stored integer, whatever scale and
\* zero point the tensor has; float32 values are copied as they are in
\* both directions.
C20_TruncatesInWidensOut ==
    /\ (/\ op = "input_copy"
         /\ tensor_info.type \in {"uint8", "int8"}
         /\ InRange(tensor_info.type, host))
        => /\ stored \in IntegersOf(tensor_info.type)
           /\ IF host >= 0
              THEN Float(stored) <= host /\ host < Float(stored + 1)
              ELSE Float(stored - 1) < host /\ host <= Float(stored)
    /\ (op = "output_copy" /\ tensor_info.type \in {"uint8", "int8"})
        => returned = raw * Denominator
    /\ (op = "input_copy" /\ tensor_info.type = "float32")
        => stored = host
    /\ (op = "output_copy" /\ tensor_info.type = "float32")
        => returned = raw

\* -1.75 was stored in an int8 tensor as -1, not as -2
C20_Witness ==
    /\ op = "input_copy"
    /\ tensor_info.type = "int8"
    /\ host = Float(-2) + 1
    /\ stored = -1

\* the positions of the files that open
Openable ==
    {p \in DOMAIN gpu_files : gpu_files[p].open}

\* C21: ReadGpuMemorySnapshot returns available = true with source_path the
\* first path of the list, in list order, that opens and raw_report the
\* contents of that file; it returns available = false with empty
\* source_path and raw_report exactly when no path of the list opens; it
\* tries no path after the first that opens.
C21_FirstReadablePathWins ==
    op = "ReadGpuMemorySnapshot"
    => /\ gpu_snapshot.available <=> Openable # {}
       /\ ~gpu_snapshot.available
            => /\ gpu_snapshot.source_path = 0
               /\ gpu_snapshot.raw_report = 0
               /\ gpu_tried = [p \in 1..NumGpuMemPaths |-> p]
       /\ gpu_snapshot.available
            => /\ gpu_snapshot.source_path \in Openable
               /\ \A p \in Openable : gpu_snapshot.source_path <= p
               /\ gpu_snapshot.raw_report =
                    gpu_files[gpu_snapshot.source_path].contents
               /\ gpu_tried = [p \in 1..gpu_snapshot.source_path |-> p]

\* the first path does not open, the second and a later one with other
\* contents do: the snapshot is that of the second and the third path on
\* were not tried
C21_Witness ==
    /\ op = "ReadGpuMemorySnapshot"
    /\ ~gpu_files[1].open
    /\ gpu_files[2].open
    /\ \E p \in 3..NumGpuMemPaths :
         gpu_files[p].open /\ gpu_files[p].contents # gpu_files[2].contents
    /\ gpu_snapshot.source_path = 2
    /\ gpu_snapshot.raw_report = gpu_files[2].contents
    /\ gpu_tried = <<1, 2>>

\* C22: main saves the output arrays in index order and only after
\* inference succeeded; when the saving of output i fails main returns a
\* code other than 0, the files of the outputs before i stay on disk and
\* SaveNPY is called for no output after i.
C22_SaveStopsAtFirstFailure ==
    /\ [](/\ saved.calls = [k \in 1..Len(saved.calls) |-> k]
          /\ saved.calls # <<>> => stages.inference = "ok"
          /\ stages.npy = "ok"
               => /\ saved.files = 1..Len(output_shapes)
                  /\ Len(saved.calls) = Len(output_shapes)
          /\ stages.npy = "failed"
               => /\ exit_code \notin {Running, 0}
                  /\ saved.calls # <<>>
                  /\ saved.files = 1..(Len(saved.calls) - 1))
    /\ [][saved.files \subseteq saved'.files]_vars

\* the second of three outputs could not be saved: the file of the first is
\* on disk, the third was not tried, main returns 1
C22_Witness ==
    /\ stages.npy = "failed"
    /\ Len(output_shapes) = 3
    /\ saved = [calls |-> <<1, 2>>, files |-> {1}]
    /\ exit_code = 1

\* the entries of the plan that have a node and are not delegated, in plan
\* order
HostNodes ==
    SelectSeq(graph.plan, LAMBDA node : node.found /\ ~node.delegate)

C24_TimingFromOneRun ==
    timing_stats_.total_ms >=
        timing_stats_.input_copy_ms + timing_stats_.inference_ms
        + timing_stats_.output_copy_ms

\* C25: in every reachable state of a session a delegate implies an
\* interpreter, tensors_allocated_ implies an interpreter, and an
\* interpreter implies that the model and the options it was built from
\* are held and not deleted.
C25_HandlesStandTogether ==
    /\ gpu_delegate_ # NULL => interpreter_ # NULL
    /\ AttachedDelegates # {} => interpreter_ # NULL
    /\ tensors_allocated_ => interpreter_ # NULL
    /\ interpreter_ # NULL
         => /\ model_ # NULL
            /\ options_ # NULL
            /\ handles[interpreter_].deleted = 0
            /\ handles[interpreter_].of = model_
            /\ handles[model_].deleted = 0
            /\ handles[options_].deleted = 0

\* a session with a delegate and allocated tensors, loaded for the second
\* time
C25_Witness ==
    /\ gpu_delegate_ # NULL
    /\ tensors_allocated_
    /\ interpreter_ # NULL
    /\ invoked_ok

\* C26: RunInferenceMulti changes the outputs vector of the caller only
\* when it returns true: on every failing path outputs is as it was passed
\* in; RunInference leaves output_data as it was passed in when it returns
\* false.
C26_OutputsKeptOnFailure ==
    /\ (LastRun /\ ~ret) => outputs \in CallerOutputs
    /\ (op = "RunInference" /\ ~ret)
         => output_data.returned = output_data.passed

\* C27: after a successful LoadModel nothing recorded for the model loaded
\* before is left: every timing field but model_load_ms is zero, the memory
\* snapshots after delegate init, after tensor allocation and after
\* inference are zero, and the two GPU memory snapshots are unavailable.
C27_LoadClearsRecords ==
    (op = "LoadModel" /\ ret)
    => /\ [timing_stats_ EXCEPT !.model_load_ms = 0] = TimingStats
       /\ memory_after_delegate_init_ = MemoryStats
       /\ memory_after_tensor_allocation_ = MemoryStats
       /\ memory_after_inference_ = MemoryStats
       /\ gpu_memory_after_delegate_init_ = GpuMemorySnapshot
       /\ gpu_memory_after_inference_ = GpuMemorySnapshot

\* C28: RunInferenceMulti given a number of inputs other than the number
\* of input tensors of the model returns false, writes no input tensor,
\* does not invoke, and leaves input_copy_ms, inference_ms, output_copy_ms,
\* total_ms and the memory and GPU memory snapshots after inference as
\* they were; RunInference returns false on a model whose number of inputs
\* is not one.
C28_InputCountMismatchFails ==
    /\ [][(/\ op' \in {"RunInferenceMulti", "RunInference"}
           /\ interpreter_ # NULL
           /\ Len(inputs') # Len(graph.inputs))
          => /\ ~ret'
             /\ written' = {}
             /\ ~invoked'
             /\ calls'.invoke = 0
             /\ timing_stats_'.input_copy_ms = timing_stats_.input_copy_ms
             /\ timing_stats_'.inference_ms = timing_stats_.inference_ms
             /\ timing_stats_'.output_copy_ms = timing_stats_.output_copy_ms
             /\ timing_stats_'.total_ms = timing_stats_.total_ms
             /\ UNCHANGED <<memory_after_inference_,
                            gpu_memory_after_inference_>>]_vars
    /\ []((op = "RunInference" /\ Len(graph.inputs) # 1) => ~ret)

\* after a successful run with two inputs, RunInference on the same model
\* fails and the times of the earlier run stay
C28_Witness ==
    /\ op = "RunInference"
    /\ ~ret
    /\ Len(graph.inputs) = 2
    /\ tensors_allocated_
    /\ timing_stats_.total_ms > 0
    /\ timing_stats_.input_copy_ms > 0

\* C29: InitGPUDelegate on a session without an interpreter returns false,
\* creates no delegate and changes no member of the session, the times and
\* the snapshots included.
C29_InitWithoutInterpreterIsNoOp ==
    [][(op' = "InitGPUDelegate" /\ interpreter_ = NULL)
       => /\ ~ret'
          /\ calls' = NoCalls
          /\ UNCHANGED <<sessionVars, handles, graph>>]_vars

\* InitGPUDelegate returned false after a load that failed and left the
\* model behind
C29_Witness ==
    /\ op = "InitGPUDelegate"
    /\ ~ret
    /\ interpreter_ = NULL
    /\ model_ # NULL
    /\ gpu_delegate_ = NULL

\* C30: without --output paths the file names main generates for different
\* output tensors are pairwise different, so that no array overwrites
\* another; each is the name of the tensor with every character other than
\* a letter, a digit, '_', '-' and '.' replaced by '_' and the leading '_'
\* removed, followed by ".npy", or output_<i>.npy for a tensor without a
\* name.
C30_AutoNamesDistinct ==
    op = "GenerateAutoOutputNames"
    => /\ Len(auto_names) = Len(tensor_names)
       /\ Len(resolved_output_paths) = Len(tensor_names)
       /\ \A i, j \in DOMAIN resolved_output_paths :
            i # j => resolved_output_paths[i] # resolved_output_paths[j]
       /\ \A i \in DOMAIN auto_names :
            IF tensor_names[i] = <<>>
            THEN auto_names[i] =
                   <<"o", "u", "t", "p", "u", "t", "_">> \o to_string(i - 1)
                   \o <<".", "n", "p", "y">>
            ELSE \E cut \in 0..Len(tensor_names[i]) :
                   /\ \A k \in 1..cut :
                        ~KeptCharacter(tensor_names[i][k])
                        \/ tensor_names[i][k] = "_"
                   /\ cut < Len(tensor_names[i])
                        => /\ KeptCharacter(tensor_names[i][cut + 1])
                           /\ tensor_names[i][cut + 1] # "_"
                   /\ auto_names[i] =
                        [k \in 1..(Len(tensor_names[i]) - cut) |->
                            IF KeptCharacter(tensor_names[i][cut + k])
                            THEN tensor_names[i][cut + k]
                            ELSE "_"]
                        \o <<".", "n", "p", "y">>

====
